---- MODULE Spec2Model ----
(***************************************************************************)
(* A model of the warehouse grid environment (warehouse_env): the episode  *)
(* state EnvState, reset(seed), step(action) and the observation           *)
(* projection, for a small family of configurations and two environment    *)
(* instances.                                                              *)
(*                                                                         *)
(* Encodings.  An optional value (Python None / a value) is a sequence of  *)
(* length 0 or 1: None == <<>>, Some(v) == <<v>>.  A position is <<x, y>>. *)
(* Rewards are floats with integral values in every configuration used     *)
(* here and are kept as integers.  wall_fraction is the rational           *)
(* wall_num / wall_den (only fractions that are exact in binary are used,  *)
(* so that int(total * wall_fraction) is the integer quotient).            *)
(* random.Random is library code: it is modelled as a deterministic        *)
(* generator whose whole state is one integer.                             *)
(***************************************************************************)
EXTENDS Integers, Sequences, FiniteSets, TLC

VARIABLES cfg, rng, state, ret, hist, traj

vars == <<cfg, rng, state, ret, hist, traj>>

(***************************************************************************)
(* Bounds of the model.                                                    *)
(***************************************************************************)
MaxSeed == 2
MaxStepCount == 8
MaxHist == 2

Envs == {1, 2}

None == <<>>
Some(v) == <<v>>

\* The seeds given to reset: None or an integer.
Seeds == {None} \cup {Some(n) : n \in 0..MaxSeed}

\* The integers given to step: the six actions and one invalid value on each side.
ActionInputs == -1..6

(***************************************************************************)
(* EnvConfig (config.py).                                                  *)
(***************************************************************************)
reward_deliver == 20
reward_pickup == 2
penalty_step == -1
penalty_bump == -5
penalty_drop_wrong == -7

EnvConfig(w, h, ms, np, bc, wn, wd) ==
    [width |-> w, height |-> h, max_steps |-> ms, num_packages |-> np,
     battery_capacity |-> bc, wall_num |-> wn, wall_den |-> wd,
     reward_deliver |-> reward_deliver, reward_pickup |-> reward_pickup,
     penalty_step |-> penalty_step, penalty_bump |-> penalty_bump,
     penalty_drop_wrong |-> penalty_drop_wrong]

\* The configurations the environments are constructed with.
Configs ==
    { EnvConfig(2, 2, 5, 1, 6, 0, 1),    \* no walls, step budget ends first
      EnvConfig(2, 2, 6, 1, 5, 1, 2),    \* one wall, battery ends first
      EnvConfig(3, 2, 7, 2, 7, 1, 4),    \* two packages, both budgets end together
      EnvConfig(2, 2, 4, 1, 4, 0, 1),    \* budgets and delivery can coincide
      EnvConfig(3, 3, 7, 1, 9, 1, 4),    \* a larger grid with one wall
      EnvConfig(2, 1, 3, 0, 2, 0, 1),    \* no package at all
      EnvConfig(2, 2, 3, 1, 3, 1, 1),    \* degenerate: every free cell is a wall
      EnvConfig(1, 1, 3, 1, 3, 0, 1) }   \* degenerate: no cell for the package

(***************************************************************************)
(* RNG (utils.py).                                                         *)
(***************************************************************************)
RngModulus == 65537

RngNext(r) == (75 * r + 74) % RngModulus

\* Faulty variant: no seed is not the seed 0.
from_seed_none_differs(seed) == IF seed = None THEN RngNext(1) ELSE RngNext(seed[1])

from_seed(seed) == IF seed = None THEN RngNext(0) ELSE RngNext(seed[1])

\* One draw: the generator advances once and indexes the sequence.
\* An empty sequence raises (ok = FALSE).
choice(r, seq) ==
    IF Len(seq) = 0
    THEN [ok |-> FALSE, rng |-> r, value |-> <<0, 0>>]
    ELSE LET r2 == RngNext(r)
         IN  [ok |-> TRUE, rng |-> r2, value |-> seq[(r2 % Len(seq)) + 1]]

(***************************************************************************)
(* Helpers of WarehouseEnv (env.py).                                       *)
(***************************************************************************)
goal_pos(c) == <<c.width - 1, c.height - 1>>

\* The cells in row-major order (increasing y, then x), as the nested
\* loops "for y in range(height): for x in range(width)" visit them.
GridCells(c) ==
    [n \in 1..(c.width * c.height) |-> <<(n - 1) % c.width, (n - 1) \div c.width>>]

\* list.remove(pos): the list without the first occurrence of pos.
RECURSIVE list_remove(_, _)
list_remove(seq, pos) ==
    IF seq = <<>> THEN <<>>
    ELSE IF Head(seq) = pos THEN Tail(seq)
    ELSE <<Head(seq)>> \o list_remove(Tail(seq), pos)

RECURSIVE draw_walls(_, _, _, _)
draw_walls(r, candidates, walls, k) ==
    IF k = 0 \/ candidates = <<>> THEN [rng |-> r, walls |-> walls]
    ELSE LET d == choice(r, candidates)
         IN  draw_walls(d.rng, list_remove(candidates, d.value),
                        walls \cup {d.value}, k - 1)

_spawn_walls(c, r, agent_pos) ==
    LET WallCandidate(pos) == pos # agent_pos /\ pos # goal_pos(c)
        candidates == SelectSeq(GridCells(c), WallCandidate)
        total == Len(candidates)
        k == (total * c.wall_num) \div c.wall_den
    IN  draw_walls(r, candidates, {}, k)

\* Faulty variant: wall cells are not excluded.
_spawn_package_pos_on_walls(c, r, agent_pos, walls) ==
    LET PackageCandidate(pos) == pos # agent_pos /\ pos # goal_pos(c)
    IN  choice(r, SelectSeq(GridCells(c), PackageCandidate))

_spawn_package_pos(c, r, agent_pos, walls) ==
    LET PackageCandidate(pos) ==
            pos # agent_pos /\ pos # goal_pos(c) /\ pos \notin walls
    IN  choice(r, SelectSeq(GridCells(c), PackageCandidate))

Package(id, pos) == [id |-> id, pos |-> pos, delivered |-> FALSE]

\* Faulty variant: a package without a candidate cell is skipped.
RECURSIVE spawn_packages_skip(_, _, _, _, _, _)
spawn_packages_skip(c, r, agent_pos, walls, i, packages) ==
    IF i >= c.num_packages THEN [ok |-> TRUE, rng |-> r, packages |-> packages]
    ELSE LET d == _spawn_package_pos(c, r, agent_pos, walls)
         IN  IF ~d.ok
             THEN spawn_packages_skip(c, d.rng, agent_pos, walls, i + 1, packages)
             ELSE spawn_packages_skip(c, d.rng, agent_pos, walls, i + 1,
                                      Append(packages, Package(i, d.value)))

\* The loop of reset over range(num_packages), from package index i on.
RECURSIVE spawn_packages(_, _, _, _, _, _)
spawn_packages(c, r, agent_pos, walls, i, packages) ==
    IF i >= c.num_packages THEN [ok |-> TRUE, rng |-> r, packages |-> packages]
    ELSE LET d == _spawn_package_pos(c, r, agent_pos, walls)
         IN  IF ~d.ok THEN [ok |-> FALSE, rng |-> d.rng, packages |-> packages]
             ELSE spawn_packages(c, d.rng, agent_pos, walls, i + 1,
                                 Append(packages, Package(i, d.value)))

is_carrying(s) == s.carrying_id # None

\* Faulty variant: up and down are exchanged.
_move_target_flipped(pos, action) ==
    IF action = 0 THEN <<pos[1], pos[2] + 1>>
    ELSE IF action = 1 THEN <<pos[1], pos[2] - 1>>
    ELSE IF action = 2 THEN <<pos[1] - 1, pos[2]>>
    ELSE <<pos[1] + 1, pos[2]>>

_move_target(pos, action) ==
    IF action = 0 THEN <<pos[1], pos[2] - 1>>
    ELSE IF action = 1 THEN <<pos[1], pos[2] + 1>>
    ELSE IF action = 2 THEN <<pos[1] - 1, pos[2]>>
    ELSE <<pos[1] + 1, pos[2]>>

\* Faulty variant: the wall test is forgotten.
_can_enter_ignore_walls(c, x, y, walls) ==
    0 <= x /\ x < c.width /\ 0 <= y /\ y < c.height

_can_enter(c, x, y, walls) ==
    0 <= x /\ x < c.width /\ 0 <= y /\ y < c.height /\ <<x, y>> \notin walls

\* The first index of a set of indices: loops over s.packages stop at the
\* first match.
MinOf(S) == CHOOSE m \in S : \A n \in S : m <= n

\* Faulty variant: delivered packages are not skipped.
_package_id_at_agent_any_state(s) ==
    LET found == {i \in 1..Len(s.packages) : s.packages[i].pos = s.agent_pos}
    IN  IF found = {} THEN None ELSE Some(s.packages[MinOf(found)].id)

\* Faulty variant: the package's cell is not compared with the agent's.
_package_id_at_agent_any_cell(s) ==
    LET found == {i \in 1..Len(s.packages) : ~s.packages[i].delivered}
    IN  IF found = {} THEN None ELSE Some(s.packages[MinOf(found)].id)

\* Faulty variant: the last matching package is taken, not the first.
_package_id_at_agent_last(s) ==
    LET found == {i \in 1..Len(s.packages) :
                     ~s.packages[i].delivered /\ s.packages[i].pos = s.agent_pos}
    IN  IF found = {} THEN None
        ELSE Some(s.packages[CHOOSE m \in found : \A n \in found : m >= n].id)

\* The id of the first undelivered package on the agent's cell, or None.
_package_id_at_agent(s) ==
    LET found == {i \in 1..Len(s.packages) :
                     ~s.packages[i].delivered /\ s.packages[i].pos = s.agent_pos}
    IN  IF found = {} THEN None ELSE Some(s.packages[MinOf(found)].id)

\* Faulty variant: the package is looked up under the next id.
_set_package_pos_wrong_id(s, pid, new_pos) ==
    LET found == {i \in 1..Len(s.packages) : s.packages[i].id = pid + 1}
    IN  IF found = {} THEN [ok |-> FALSE, s |-> s]
        ELSE [ok |-> TRUE,
              s |-> [s EXCEPT !.packages[MinOf(found)].pos = new_pos]]

\* The first package with the given id, or ok = FALSE (the method raises).
_set_package_pos(s, pid, new_pos) ==
    LET found == {i \in 1..Len(s.packages) : s.packages[i].id = pid}
    IN  IF found = {} THEN [ok |-> FALSE, s |-> s]
        ELSE [ok |-> TRUE,
              s |-> [s EXCEPT !.packages[MinOf(found)].pos = new_pos]]

\* Faulty variant: every package is marked, whatever its id.
_mark_package_delivered_all(s, pid) ==
    IF {i \in 1..Len(s.packages) : s.packages[i].id = pid} = {}
    THEN [ok |-> FALSE, s |-> s]
    ELSE [ok |-> TRUE,
          s |-> [s EXCEPT !.packages =
                    [i \in 1..Len(s.packages) |->
                        [s.packages[i] EXCEPT !.delivered = TRUE]]]]

\* Faulty variant: the package is found but its flag is not set.
_mark_package_delivered_noop(s, pid) ==
    LET found == {i \in 1..Len(s.packages) : s.packages[i].id = pid}
    IN  IF found = {} THEN [ok |-> FALSE, s |-> s] ELSE [ok |-> TRUE, s |-> s]

_mark_package_delivered(s, pid) ==
    LET found == {i \in 1..Len(s.packages) : s.packages[i].id = pid}
    IN  IF found = {} THEN [ok |-> FALSE, s |-> s]
        ELSE [ok |-> TRUE,
              s |-> [s EXCEPT !.packages[MinOf(found)].delivered = TRUE]]

_all_delivered(s) == \A i \in 1..Len(s.packages) : s.packages[i].delivered

\* Tuple order of positions, as sorted() compares them.
PosLess(p, q) == p[1] < q[1] \/ (p[1] = q[1] /\ p[2] < q[2])

RECURSIVE sorted(_)
sorted(S) ==
    IF S = {} THEN <<>>
    ELSE LET m == CHOOSE p \in S : \A q \in S \ {p} : PosLess(p, q)
         IN  <<m>> \o sorted(S \ {m})

int(b) == IF b THEN 1 ELSE 0

_obs(c, s) ==
    [agent_pos |-> s.agent_pos,
     battery |-> s.battery,
     carrying |-> s.carrying_id,
     packages |-> [i \in 1..Len(s.packages) |->
                      <<s.packages[i].pos, int(s.packages[i].delivered)>>],
     goal_pos |-> goal_pos(c),
     walls |-> sorted(s.walls),
     step_count |-> s.step_count]

max(a, b) == IF a >= b THEN a ELSE b


(***************************************************************************)
(* EnvState (state.py) and the result of a call.                           *)
(***************************************************************************)
EnvState(step_count, agent_pos, carrying_id, battery, packages, walls) ==
    [step_count |-> step_count, agent_pos |-> agent_pos,
     carrying_id |-> carrying_id, battery |-> battery,
     packages |-> packages, walls |-> walls]

\* What a call gave back: out is <<obs>> for reset, <<obs, reward, done, info>>
\* for step, and empty when the call raised (raised names the exception).
Returned(op, arg, out) == [op |-> op, arg |-> arg, raised |-> "", out |-> out]
Raised(op, arg, exc) == [op |-> op, arg |-> arg, raised |-> exc, out |-> <<>>]

(***************************************************************************)
(* WarehouseEnv.step (env.py).  The state object is mutated in place, so a *)
(* branch that raises leaves the mutations made before the raise.          *)
(* The two checks "carrying_id is None" under is_carrying are dead by the  *)
(* definition of is_carrying and have no branch here.                      *)
(***************************************************************************)
Branch(s, event, raised, bumped, dropped_wrong, picked_up, delivered_now) ==
    [s |-> s, event |-> event, raised |-> raised, bumped |-> bumped,
     dropped_wrong |-> dropped_wrong, picked_up |-> picked_up,
     delivered_now |-> delivered_now]

step_move(c, s, action) ==
    LET n == _move_target(s.agent_pos, action)
    IN  IF _can_enter(c, n[1], n[2], s.walls)
        THEN Branch([s EXCEPT !.agent_pos = n], None, "", FALSE, FALSE, FALSE, FALSE)
        ELSE Branch(s, None, "", TRUE, FALSE, FALSE, FALSE)

step_pickup(c, s) ==
    IF is_carrying(s)
    THEN Branch(s, Some("pickup_failed_already_carrying"), "",
                FALSE, FALSE, FALSE, FALSE)
    ELSE LET pid == _package_id_at_agent(s)
         IN  IF pid = None
             THEN Branch(s, Some("pickup_failed_no_package"), "",
                         FALSE, FALSE, FALSE, FALSE)
             ELSE LET s1 == [s EXCEPT !.carrying_id = pid]
                      m == _set_package_pos(s1, pid[1], s1.agent_pos)
                  IN  IF ~m.ok
                      THEN Branch(s1, None, "RuntimeError", FALSE, FALSE, FALSE, FALSE)
                      ELSE Branch(m.s, Some("pickup"), "", FALSE, FALSE, TRUE, FALSE)

\* Faulty variant: a drop while not carrying is penalised as a wrong drop.
step_drop_penalize_failed(c, s) ==
    IF ~is_carrying(s)
    THEN Branch(s, Some("drop_failed_not_carrying"), "", FALSE, TRUE, FALSE, FALSE)
    ELSE LET pid == s.carrying_id[1]
             m == _set_package_pos(s, pid, s.agent_pos)
         IN  IF ~m.ok
             THEN Branch(s, None, "RuntimeError", FALSE, FALSE, FALSE, FALSE)
             ELSE IF m.s.agent_pos = goal_pos(c)
             THEN LET d == _mark_package_delivered(m.s, pid)
                  IN  IF ~d.ok
                      THEN Branch(m.s, None, "RuntimeError", FALSE, FALSE, FALSE, FALSE)
                      ELSE Branch([d.s EXCEPT !.carrying_id = None], Some("deliver"),
                                  "", FALSE, FALSE, FALSE, TRUE)
             ELSE Branch([m.s EXCEPT !.carrying_id = None], Some("drop"), "",
                         FALSE, TRUE, FALSE, FALSE)

step_drop(c, s) ==
    IF ~is_carrying(s)
    THEN Branch(s, Some("drop_failed_not_carrying"), "", FALSE, FALSE, FALSE, FALSE)
    ELSE LET pid == s.carrying_id[1]
             m == _set_package_pos(s, pid, s.agent_pos)
         IN  IF ~m.ok
             THEN Branch(s, None, "RuntimeError", FALSE, FALSE, FALSE, FALSE)
             ELSE IF m.s.agent_pos = goal_pos(c)
             THEN LET d == _mark_package_delivered(m.s, pid)
                  IN  IF ~d.ok
                      THEN Branch(m.s, None, "RuntimeError", FALSE, FALSE, FALSE, FALSE)
                      ELSE Branch([d.s EXCEPT !.carrying_id = None], Some("deliver"),
                                  "", FALSE, FALSE, FALSE, TRUE)
             ELSE Branch([m.s EXCEPT !.carrying_id = None], Some("drop"), "",
                         FALSE, TRUE, FALSE, FALSE)

\* Faulty variant: an unknown action is taken as a step that does nothing.
step_invalid_ignored(c, s) ==
    Branch(s, None, "", FALSE, FALSE, FALSE, FALSE)

\* Lines 180-181: any other action value is rejected.
step_invalid(c, s) ==
    Branch(s, None, "ValueError", FALSE, FALSE, FALSE, FALSE)

\* Faulty variant: the wrong-drop penalty is not applied.
step_reward_no_drop_penalty(c, b) ==
    c.penalty_step
    + (IF b.bumped THEN c.penalty_bump ELSE 0)
    + (IF b.picked_up THEN c.reward_pickup ELSE 0)
    + (IF b.delivered_now THEN c.reward_deliver ELSE 0)

\* Faulty variant: a bump costs nothing more than the step.
step_reward_no_bump_penalty(c, b) ==
    c.penalty_step
    + (IF b.dropped_wrong THEN c.penalty_drop_wrong ELSE 0)
    + (IF b.picked_up THEN c.reward_pickup ELSE 0)
    + (IF b.delivered_now THEN c.reward_deliver ELSE 0)

\* Lines 183-198: the reward of the step.
step_reward(c, b) ==
    c.penalty_step
    + (IF b.bumped THEN c.penalty_bump ELSE 0)
    + (IF b.dropped_wrong THEN c.penalty_drop_wrong ELSE 0)
    + (IF b.picked_up THEN c.reward_pickup ELSE 0)
    + (IF b.delivered_now THEN c.reward_deliver ELSE 0)

\* Faulty variant: the carried package is left where it was.
step_attach_skip(s) == [ok |-> TRUE, s |-> s]

\* Lines 200-205: the carried package is kept on the agent's cell.
step_attach(s) ==
    IF is_carrying(s) THEN _set_package_pos(s, s.carrying_id[1], s.agent_pos)
    ELSE [ok |-> TRUE, s |-> s]

\* Faulty variant: the battery is not floored at 0.
step_tick_no_floor(s) ==
    [s EXCEPT !.step_count = s.step_count + 1, !.battery = s.battery - 1]

\* Faulty variant: the battery is drained by 2 each step.
step_tick_double_drain(s) ==
    [s EXCEPT !.step_count = s.step_count + 1, !.battery = max(s.battery - 2, 0)]

\* Lines 207-209: time and battery.
step_tick(s) ==
    [s EXCEPT !.step_count = s.step_count + 1, !.battery = max(s.battery - 1, 0)]

\* Faulty variant: the battery is tested before the step budget.
step_termination_battery_first(c, s, event) ==
    IF s.battery = 0
    THEN [done |-> TRUE, info |-> [event |-> event, done_reason |-> "battery_empty"]]
    ELSE IF s.step_count >= c.max_steps
    THEN [done |-> TRUE, info |-> [event |-> event, done_reason |-> "max_steps"]]
    ELSE IF _all_delivered(s)
    THEN [done |-> TRUE, info |-> [event |-> event, done_reason |-> "all_delivered"]]
    ELSE [done |-> FALSE, info |-> [event |-> event]]

\* Faulty variant: the step budget is tested with = instead of >=.
step_termination_exact_budget(c, s, event) ==
    IF s.step_count = c.max_steps
    THEN [done |-> TRUE, info |-> [event |-> event, done_reason |-> "max_steps"]]
    ELSE IF s.battery = 0
    THEN [done |-> TRUE, info |-> [event |-> event, done_reason |-> "battery_empty"]]
    ELSE IF _all_delivered(s)
    THEN [done |-> TRUE, info |-> [event |-> event, done_reason |-> "all_delivered"]]
    ELSE [done |-> FALSE, info |-> [event |-> event]]

\* Lines 211-221: done and info, for the state after the tick and the event.
step_termination(c, s, event) ==
    IF s.step_count >= c.max_steps
    THEN [done |-> TRUE, info |-> [event |-> event, done_reason |-> "max_steps"]]
    ELSE IF s.battery = 0
    THEN [done |-> TRUE, info |-> [event |-> event, done_reason |-> "battery_empty"]]
    ELSE IF _all_delivered(s)
    THEN [done |-> TRUE, info |-> [event |-> event, done_reason |-> "all_delivered"]]
    ELSE [done |-> FALSE, info |-> [event |-> event]]

\* The whole of step on an episode state s: the state it leaves, and either
\* the exception it raises or the tuple it returns.
step_body(c, s, action) ==
    LET b == IF action \in {0, 1, 2, 3} THEN step_move(c, s, action)
             ELSE IF action = 4 THEN step_pickup(c, s)
             ELSE IF action = 5 THEN step_drop(c, s)
             ELSE step_invalid(c, s)
    IN  IF b.raised # "" THEN [s |-> b.s, raised |-> b.raised, out |-> <<>>]
        ELSE LET event == IF b.bumped THEN Some("bump") ELSE b.event
                 a == step_attach(b.s)
             IN  IF ~a.ok THEN [s |-> b.s, raised |-> "RuntimeError", out |-> <<>>]
                 ELSE LET s2 == step_tick(a.s)
                          t == step_termination(c, s2, event)
                      IN  [s |-> s2, raised |-> "",
                           out |-> <<_obs(c, s2), step_reward(c, b), t.done, t.info>>]

step(e, action) ==
    /\ IF state[e] = None
       THEN /\ ret' = [ret EXCEPT ![e] = Raised("step", Some(action), "RuntimeError")]
            /\ UNCHANGED state
       ELSE LET r == step_body(cfg, state[e][1], action)
            IN  /\ state' = [state EXCEPT ![e] = Some(r.s)]
                /\ ret' = [ret EXCEPT ![e] =
                              [op |-> "step", arg |-> Some(action),
                               raised |-> r.raised, out |-> r.out]]
    /\ UNCHANGED <<cfg, rng>>

(***************************************************************************)
(* WarehouseEnv.reset (env.py).  self._rng is replaced first; the episode  *)
(* state is installed only when every placement succeeded.                 *)
(***************************************************************************)
reset_with(e, seed, r) ==
    LET agent_pos == <<0, 0>>
        w == _spawn_walls(cfg, r, agent_pos)
        p == spawn_packages(cfg, w.rng, agent_pos, w.walls, 0, <<>>)
        s == EnvState(0, agent_pos, None, cfg.battery_capacity, p.packages, w.walls)
    IN  /\ rng' = [rng EXCEPT ![e] = p.rng]
        /\ IF p.ok
           THEN /\ state' = [state EXCEPT ![e] = Some(s)]
                /\ ret' = [ret EXCEPT ![e] = Returned("reset", seed, <<_obs(cfg, s)>>)]
           ELSE /\ UNCHANGED state
                /\ ret' = [ret EXCEPT ![e] = Raised("reset", seed, "IndexError")]
        /\ UNCHANGED cfg

\* Faulty variant: the generator of the previous episode is kept.
reset_stale_rng(e, seed) == reset_with(e, seed, rng[e])

\* Line 63: the generator is replaced by one made from the seed.
reset(e, seed) == reset_with(e, seed, from_seed(seed))

(***************************************************************************)
(* WarehouseEnv.__init__: no episode, a generator seeded with 0.           *)
(***************************************************************************)
Init ==
    /\ cfg \in Configs
    /\ rng = [e \in Envs |-> from_seed(Some(0))]
    /\ state = [e \in Envs |-> None]
    /\ ret = [e \in Envs |-> Returned("init", None, <<>>)]
    /\ hist = [e \in Envs |-> <<>>]
    /\ traj = [e \in Envs |-> <<>>]

\* The step counter is capped: step is not called on an episode that has
\* already run MaxStepCount steps.
CanStep(e) ==
    IF state[e] = None THEN TRUE ELSE state[e][1].step_count < MaxStepCount

(***************************************************************************)
(* One environment driven by an arbitrary caller.                          *)
(***************************************************************************)
Reset == \E seed \in Seeds : reset(1, seed) /\ UNCHANGED <<hist, traj>>

Step == \E a \in ActionInputs : CanStep(1) /\ step(1, a) /\ UNCHANGED <<hist, traj>>

Next == Reset \/ Step

Spec == Init /\ [][Next]_vars

(***************************************************************************)
(* Two environments of the same configuration, each recording a rollout    *)
(* as tests/test_determinism.py does: hist[e] is what environment e was    *)
(* given since its latest reset (the seed, then the actions) and traj[e]   *)
(* what it gave back.  Environment 1 is driven freely, also through        *)
(* earlier episodes; environment 2 is given, one call at a time, the       *)
(* inputs that environment 1 was given since its latest reset, and         *)
(* environment 1 is called again once environment 2 has caught up (or      *)
(* while environment 2 has not been used at all).                          *)
(***************************************************************************)
Record(e, input) ==
    /\ hist' = [hist EXCEPT ![e] = Append(@, input)]
    /\ traj' = [traj EXCEPT ![e] = Append(@, ret'[e])]

Restart(e, seed) ==
    /\ hist' = [hist EXCEPT ![e] = <<seed>>]
    /\ traj' = [traj EXCEPT ![e] = <<ret'[e]>>]

\* Environment 2 has not been used yet, or has been given all that
\* environment 1 was given.
CaughtUp == hist[2] = <<>> \/ hist[2] = hist[1]

RolloutReset == \E seed \in Seeds : CaughtUp /\ reset(1, seed) /\ Restart(1, seed)

RolloutStep ==
    \E a \in ActionInputs :
        /\ Len(hist[1]) >= 1 /\ Len(hist[1]) <= MaxHist
        /\ CaughtUp
        /\ step(1, a) /\ Record(1, Some(a))

ReplayReset ==
    /\ Len(hist[1]) >= 1
    /\ reset(2, hist[1][1]) /\ Restart(2, hist[1][1])

ReplayStep ==
    /\ Len(hist[2]) >= 1 /\ Len(hist[2]) < Len(hist[1])
    /\ SubSeq(hist[1], 1, Len(hist[2])) = hist[2]
    /\ LET input == hist[1][Len(hist[2]) + 1]
       IN  step(2, input[1]) /\ Record(2, input)

NextRollout == RolloutReset \/ RolloutStep \/ ReplayReset \/ ReplayStep

SpecRollout == Init /\ [][NextRollout]_vars

(***************************************************************************)
(* An environment with a history against a freshly constructed one.        *)
(* Environment 1 is driven freely through any number of episodes, hist[1]  *)
(* and traj[1] recording its latest one.  Environment 2 is constructed     *)
(* anew (__init__), reset once with the seed environment 1 was last reset  *)
(* with, or with the other of None and 0 when that seed is one of them,    *)
(* and then given the actions environment 1 was given.  Environment 1 is   *)
(* reset while environment 2 is freshly constructed and steps while        *)
(* environment 2 is freshly constructed or has caught up.                  *)
(***************************************************************************)
\* The integer a seed stands for (utils.py, from_seed): None is 0.
SeedValue(seed) == IF seed = None THEN 0 ELSE seed[1]

\* The first k inputs of two rollouts are the same seed value and actions.
SameInputs(h1, h2, k) ==
    /\ 1 <= k /\ k <= Len(h1) /\ k <= Len(h2)
    /\ SeedValue(h1[1]) = SeedValue(h2[1])
    /\ SubSeq(h1, 2, k) = SubSeq(h2, 2, k)

FreshlyConstructed == hist[2] = <<>>

HistoryReset ==
    \E seed \in Seeds : FreshlyConstructed /\ reset(1, seed) /\ Restart(1, seed)

HistoryStep ==
    \E a \in ActionInputs :
        /\ Len(hist[1]) >= 1 /\ Len(hist[1]) <= MaxHist
        /\ IF FreshlyConstructed THEN TRUE
           ELSE Len(hist[2]) = Len(hist[1]) /\ SameInputs(hist[1], hist[2], Len(hist[1]))
        /\ step(1, a) /\ Record(1, Some(a))

FreshConstruct ==
    /\ hist[2] # <<>>
    /\ rng' = [rng EXCEPT ![2] = from_seed(Some(0))]
    /\ state' = [state EXCEPT ![2] = None]
    /\ ret' = [ret EXCEPT ![2] = Returned("init", None, <<>>)]
    /\ hist' = [hist EXCEPT ![2] = <<>>]
    /\ traj' = [traj EXCEPT ![2] = <<>>]
    /\ UNCHANGED cfg

FreshReset ==
    \E seed \in Seeds :
        /\ FreshlyConstructed /\ Len(hist[1]) >= 1
        /\ SeedValue(seed) = SeedValue(hist[1][1])
        /\ reset(2, seed) /\ Restart(2, seed)

FreshStep ==
    /\ Len(hist[2]) >= 1 /\ Len(hist[2]) < Len(hist[1])
    /\ SameInputs(hist[1], hist[2], Len(hist[2]))
    /\ LET input == hist[1][Len(hist[2]) + 1]
       IN  step(2, input[1]) /\ Record(2, input)

NextFresh == HistoryReset \/ HistoryStep \/ FreshConstruct \/ FreshReset \/ FreshStep

SpecFresh == Init /\ [][NextFresh]_vars

(***************************************************************************)
(* Properties.  Those about one environment are stated of environment 1    *)
(* under Spec; the determinism property is stated of the pair under        *)
(* SpecRollout.                                                            *)
(***************************************************************************)
\* The episode state of environment 1, when there is one.
HasEpisode == state[1] # None
S == state[1][1]

\* The latest call of environment 1 was a step that returned.
StepReturned == ret[1].op = "step" /\ ret[1].raised = ""
RetObs == ret[1].out[1]
RetReward == ret[1].out[2]
RetDone == ret[1].out[3]
RetInfo == ret[1].out[4]

\* This transition is a call of step with the given action on an episode.
StepCall(a) ==
    /\ state[1] # None /\ state'[1] # None
    /\ ret'[1].op = "step" /\ ret'[1].arg = Some(a)

\* The index, in stored order, of the packages with id pid.
WithId(s, pid) == {i \in 1..Len(s.packages) : s.packages[i].id = pid}

Min2(a, b) == IF a <= b THEN a ELSE b

\* C1 Determinism: two environments of the same configuration that were
\* given the same seed at their latest reset and the same actions since
\* have returned the same results, call by call: wherever the recorded
\* inputs agree on their first k entries, the k-th recorded results
\* (observation, reward, done, info, or the exception raised) are equal.
C1_Determinism ==
    \A k \in 1..Min2(Len(hist[1]), Len(hist[2])) :
        SubSeq(hist[1], 1, k) = SubSeq(hist[2], 1, k) => traj[1][k] = traj[2][k]

\* Both rollouts are complete, with the same inputs, and the agent has moved.
C1_Witness ==
    /\ Len(hist[1]) = MaxHist + 1 /\ hist[2] = hist[1]
    /\ traj[2][MaxHist + 1].raised = ""
    /\ traj[2][MaxHist + 1].out[1].agent_pos # <<0, 0>>
    /\ traj[1][1].out[1].walls # <<>>

\* C2 Bounds: whenever an episode exists, the agent's cell is inside the
\* grid and is not a wall.
C2_Bounds ==
    HasEpisode =>
        /\ 0 <= S.agent_pos[1] /\ S.agent_pos[1] < cfg.width
        /\ 0 <= S.agent_pos[2] /\ S.agent_pos[2] < cfg.height
        /\ S.agent_pos \notin S.walls

\* The latest step was a move towards a wall cell.
C2_Witness ==
    /\ HasEpisode /\ StepReturned
    /\ ret[1].arg[1] \in 0..3
    /\ _move_target(S.agent_pos, ret[1].arg[1]) \in S.walls

\* C3 Carry consistency: in the observation returned by every step, if
\* carrying is pid then the position listed for package pid is the agent
\* position (and the same holds of the stored state).
C3_CarryConsistency ==
    (HasEpisode /\ StepReturned) =>
        /\ RetObs.carrying # None =>
              RetObs.packages[RetObs.carrying[1] + 1][1] = RetObs.agent_pos
        /\ S.carrying_id # None =>
              \A i \in WithId(S, S.carrying_id[1]) : S.packages[i].pos = S.agent_pos

\* The latest step moved the agent while it was carrying a package.
C3_Witness ==
    /\ HasEpisode /\ StepReturned
    /\ ret[1].arg[1] \in 0..3 /\ RetInfo.event = None
    /\ RetObs.carrying # None
    /\ RetObs.agent_pos # <<0, 0>>

\* C4 Delivery monotonicity: a step of an episode leaves every delivered
\* package delivered and at the same position, which is the goal cell.
C4_DeliveryMonotonic ==
    [][\A a \in ActionInputs : StepCall(a) =>
          \A i \in 1..Len(S.packages) :
              S.packages[i].delivered =>
                  /\ i <= Len(state'[1][1].packages)
                  /\ state'[1][1].packages[i].delivered
                  /\ state'[1][1].packages[i].pos = S.packages[i].pos
                  /\ S.packages[i].pos = goal_pos(cfg)]_vars

\* A pickup was tried on the goal cell where a delivered package lies.
C4_Witness ==
    /\ HasEpisode /\ StepReturned
    /\ ret[1].arg = Some(4)
    /\ S.agent_pos = goal_pos(cfg)
    /\ \E i \in 1..Len(S.packages) : S.packages[i].delivered
    /\ RetInfo.event = Some("pickup_failed_no_package")

\* C5 Battery floor: the battery is never negative, no step of an episode
\* increases it, and a step that leaves it at 0 returns done = true.
C5_BatteryFloor ==
    [][/\ state'[1] # None => state'[1][1].battery >= 0
       /\ \A a \in ActionInputs : StepCall(a) =>
             /\ state'[1][1].battery <= S.battery
             /\ (ret'[1].raised = "" /\ state'[1][1].battery = 0) =>
                   (ret'[1].out[3] = TRUE /\ ret'[1].out[1].battery = 0)]_vars

\* A step was taken with the battery already empty.
C5_Witness ==
    /\ HasEpisode /\ StepReturned
    /\ S.battery = 0 /\ S.step_count > cfg.battery_capacity
    /\ cfg.battery_capacity > 0
    /\ RetDone

\* C6 Termination priority: a step that returns done = true reports one
\* done_reason: "max_steps" if the step counter has reached max_steps,
\* otherwise "battery_empty" if the battery is 0, otherwise "all_delivered"
\* (and then every package is delivered); a step that returns done = false
\* has no done_reason, and none of the three conditions holds.
C6_TerminationPriority ==
    (HasEpisode /\ StepReturned) =>
        LET o == RetObs
            budget == o.step_count >= cfg.max_steps
            empty == o.battery = 0
            all == \A i \in 1..Len(o.packages) : o.packages[i][2] = 1
        IN  IF RetDone
            THEN /\ DOMAIN RetInfo = {"event", "done_reason"}
                 /\ RetInfo.done_reason =
                       (IF budget THEN "max_steps"
                        ELSE IF empty THEN "battery_empty" ELSE "all_delivered")
                 /\ budget \/ empty \/ all
            ELSE /\ DOMAIN RetInfo = {"event"}
                 /\ ~budget /\ ~empty /\ ~all

\* One step reached max_steps, emptied the battery and delivered the last
\* package.
C6_Witness ==
    /\ HasEpisode /\ StepReturned /\ RetDone
    /\ RetObs.step_count = cfg.max_steps /\ RetObs.battery = 0
    /\ RetInfo.event = Some("deliver")
    /\ Len(S.packages) > 0 /\ _all_delivered(S)
    /\ RetInfo.done_reason = "max_steps"

\* C7 Carrying exclusivity: carrying id goes from None to pid only in a
\* pickup step, and then pid is the id of exactly one package, which was
\* undelivered and on the agent's cell when the step was taken.
C7_CarryingExclusivity ==
    [][(state[1] # None /\ state'[1] # None
        /\ S.carrying_id = None /\ state'[1][1].carrying_id # None) =>
          LET pid == state'[1][1].carrying_id[1]
          IN  /\ ret'[1].op = "step" /\ ret'[1].arg = Some(4)
              /\ Cardinality(WithId(S, pid)) = 1
              /\ \A i \in WithId(S, pid) :
                    ~S.packages[i].delivered /\ S.packages[i].pos = S.agent_pos]_vars

\* A pickup succeeded.
C7_Witness ==
    /\ HasEpisode /\ StepReturned
    /\ ret[1].arg = Some(4) /\ RetInfo.event = Some("pickup")
    /\ S.carrying_id # None

\* C8 Rejected step calls: step before any reset raises RuntimeError; step
\* on an episode with an action outside 0..5 raises ValueError; in both
\* cases the episode state (or its absence) is what it was before the call.
C8_RejectedStep ==
    [][ret'[1].op = "step" =>
          /\ state[1] = None =>
                ret'[1].raised = "RuntimeError" /\ state'[1] = None
          /\ (state[1] # None /\ ret'[1].arg[1] \notin 0..5) =>
                ret'[1].raised = "ValueError" /\ state'[1] = state[1]]_vars

\* An invalid action was rejected in an episode that had already advanced.
C8_Witness ==
    /\ HasEpisode /\ ret[1].op = "step" /\ ret[1].raised = "ValueError"
    /\ S.step_count > 0 /\ S.carrying_id # None

\* C9 Wrong drop: a drop taken while carrying pid off the goal cell returns
\* event "drop" and reward penalty_step + penalty_drop_wrong, clears
\* carrying id, and leaves package pid undelivered on the agent's cell.
C9_WrongDrop ==
    [][(StepCall(5) /\ S.carrying_id # None /\ S.agent_pos # goal_pos(cfg)) =>
          LET s2 == state'[1][1]
              pid == S.carrying_id[1]
          IN  /\ ret'[1].raised = ""
              /\ ret'[1].out[4].event = Some("drop")
              /\ ret'[1].out[2] = cfg.penalty_step + cfg.penalty_drop_wrong
              /\ s2.carrying_id = None /\ ret'[1].out[1].carrying = None
              /\ s2.agent_pos = S.agent_pos
              /\ \A i \in WithId(s2, pid) :
                    s2.packages[i].pos = s2.agent_pos /\ ~s2.packages[i].delivered
              /\ ret'[1].out[1].packages[pid + 1] = <<s2.agent_pos, 0>>]_vars

\* A package was dropped on a cell other than the one it was spawned on.
C9_Witness ==
    /\ HasEpisode /\ StepReturned
    /\ ret[1].arg = Some(5) /\ RetInfo.event = Some("drop")
    /\ S.agent_pos # goal_pos(cfg)
    /\ \E i \in 1..Len(S.packages) :
          S.packages[i].pos = S.agent_pos /\ ~S.packages[i].delivered

C11_Bump ==
    [][\A a \in 0..3 : StepCall(a) =>
          LET x == S.agent_pos[1]
              y == S.agent_pos[2]
              tx == IF a = 2 THEN x - 1 ELSE IF a = 3 THEN x + 1 ELSE x
              ty == IF a = 0 THEN y - 1 ELSE IF a = 1 THEN y + 1 ELSE y
              blocked == \/ tx < 0 \/ tx >= cfg.width
                         \/ ty < 0 \/ ty >= cfg.height
                         \/ <<tx, ty>> \in S.walls
              s2 == state'[1][1]
          IN  /\ ret'[1].raised = ""
              /\ IF blocked
                 THEN /\ s2.agent_pos = S.agent_pos
                      /\ ret'[1].out[1].agent_pos = S.agent_pos
                      /\ ret'[1].out[4].event = Some("bump")
                      /\ ret'[1].out[2] = cfg.penalty_step + cfg.penalty_bump
                 ELSE /\ s2.agent_pos = <<tx, ty>>
                      /\ ret'[1].out[1].agent_pos = <<tx, ty>>
                      /\ ret'[1].out[4].event = None]_vars

\* The agent bumped into the upper edge from (0,0) after earlier steps.
C11_Witness ==
    /\ HasEpisode /\ StepReturned
    /\ ret[1].arg = Some(0) /\ RetInfo.event = Some("bump")
    /\ S.agent_pos = <<0, 0>> /\ S.step_count >= 3

\* A cell of the grid.
InGrid(pos) ==
    0 <= pos[1] /\ pos[1] < cfg.width /\ 0 <= pos[2] /\ pos[2] < cfg.height

\* C12 Spawn invariants: after every successful reset the walls are
\* distinct cells of the grid, none of them the start cell (0,0) or the
\* goal cell, and every package is undelivered on a cell of the grid that is
\* not a wall, not the start cell and not the goal cell; no step changes
\* the wall set.
C12_SpawnInvariants ==
    [][/\ (ret'[1].op = "reset" /\ ret'[1].raised = "") =>
             LET s2 == state'[1][1]
                 o == ret'[1].out[1]
                 start == <<0, 0>>
                 goal == <<cfg.width - 1, cfg.height - 1>>
             IN  /\ state'[1] # None
                 /\ \A w \in s2.walls : InGrid(w) /\ w # start /\ w # goal
                 /\ Len(o.walls) = Cardinality(s2.walls)
                 /\ {o.walls[i] : i \in 1..Len(o.walls)} = s2.walls
                 /\ Len(s2.packages) = cfg.num_packages
                 /\ \A i \in 1..Len(s2.packages) :
                       LET p == s2.packages[i].pos
                       IN  /\ InGrid(p) /\ p \notin s2.walls
                           /\ p # start /\ p # goal
                           /\ ~s2.packages[i].delivered
                           /\ o.packages[i] = <<p, 0>>
       /\ \A a \in ActionInputs : StepCall(a) =>
             /\ state'[1][1].walls = S.walls
             /\ ret'[1].raised = "" =>
                   {ret'[1].out[1].walls[i] : i \in 1..Len(ret'[1].out[1].walls)}
                       = S.walls]_vars

\* A reset has placed a wall and two packages.
C12_Witness ==
    /\ HasEpisode /\ ret[1].op = "reset" /\ ret[1].raised = ""
    /\ S.walls # {} /\ Len(S.packages) = 2

\* The number of cells left for a package: the cells other than the start
\* and goal cells, less the walls drawn among them.
FreeCells ==
    LET total == cfg.width * cfg.height
                 - (IF <<cfg.width - 1, cfg.height - 1>> = <<0, 0>> THEN 1 ELSE 2)
    IN  total - ((total * cfg.wall_num) \div cfg.wall_den)

\* C13 Degenerate configuration: when a package must be placed and every
\* cell is the start cell, the goal cell or a wall, reset raises an error,
\* returns no observation and leaves the episode state (or its absence) as
\* it was.
C13_DegenerateReset ==
    [][(ret'[1].op = "reset" /\ cfg.num_packages >= 1 /\ FreeCells = 0) =>
          /\ ret'[1].raised # ""
          /\ ret'[1].out = <<>>
          /\ state'[1] = state[1]]_vars

\* A reset failed on a grid whose free cells are all walls.
C13_Witness ==
    /\ ret[1].op = "reset" /\ ret[1].raised = "IndexError"
    /\ cfg.wall_num = cfg.wall_den /\ cfg.width = 2
    /\ state[1] = None

\* The undelivered packages on the agent's cell, by index.
PendingHere(s) ==
    {i \in 1..Len(s.packages) :
        ~s.packages[i].delivered /\ s.packages[i].pos = s.agent_pos}

\* C14 Failed pickup and failed drop: a pickup while carrying, a pickup with
\* no undelivered package on the agent's cell and a drop while not carrying
\* return their event ("pickup_failed_already_carrying",
\* "pickup_failed_no_package", "drop_failed_not_carrying") and reward
\* penalty_step, and leave the agent position, carrying id, every package
\* and the walls as they were; the step counter and the battery advance.
C14_FailedPickupDrop ==
    [][\A a \in {4, 5} : StepCall(a) =>
          LET s2 == state'[1][1]
              failure ==
                  IF a = 4 /\ S.carrying_id # None
                  THEN Some("pickup_failed_already_carrying")
                  ELSE IF a = 4 /\ PendingHere(S) = {}
                  THEN Some("pickup_failed_no_package")
                  ELSE IF a = 5 /\ S.carrying_id = None
                  THEN Some("drop_failed_not_carrying")
                  ELSE None
          IN  failure # None =>
                  /\ ret'[1].raised = ""
                  /\ ret'[1].out[4].event = failure
                  /\ ret'[1].out[2] = cfg.penalty_step
                  /\ s2.agent_pos = S.agent_pos
                  /\ s2.carrying_id = S.carrying_id
                  /\ s2.packages = S.packages
                  /\ s2.walls = S.walls
                  /\ s2.step_count = S.step_count + 1
                  /\ s2.battery = (IF S.battery >= 1 THEN S.battery - 1 ELSE 0)
                  /\ ret'[1].out[1].packages =
                        [i \in 1..Len(S.packages) |->
                            <<S.packages[i].pos,
                              IF S.packages[i].delivered THEN 1 ELSE 0>>]]_vars

\* A pickup was refused because the agent, away from the start cell, was
\* already carrying.
C14_Witness ==
    /\ HasEpisode /\ StepReturned
    /\ RetInfo.event = Some("pickup_failed_already_carrying")
    /\ S.carrying_id # None /\ S.agent_pos # <<0, 0>>
    /\ RetReward = cfg.penalty_step

\* C15 Reset starts a fresh episode: whatever environment 1 did before its
\* latest reset, that reset returns an initial observation (step counter 0,
\* agent at (0,0), carrying none, battery = battery_capacity, no package
\* delivered), and it and every later call return what a freshly
\* constructed environment returns for the same seed and actions, where
\* the seeds None and 0 count as the same seed.
C15_FreshEpisode ==
    /\ (Len(traj[1]) >= 1 /\ traj[1][1].raised = "") =>
          LET o == traj[1][1].out[1]
          IN  /\ o.step_count = 0 /\ o.agent_pos = <<0, 0>>
              /\ o.carrying = None /\ o.battery = cfg.battery_capacity
              /\ \A i \in 1..Len(o.packages) : o.packages[i][2] = 0
    /\ \A k \in 1..Min2(Len(hist[1]), Len(hist[2])) :
          SameInputs(hist[1], hist[2], k) =>
              /\ traj[1][k].op = traj[2][k].op
              /\ traj[1][k].raised = traj[2][k].raised
              /\ traj[1][k].out = traj[2][k].out

\* Environment 1 was reset with None, the fresh environment with 0, and
\* both were stepped alike to the end of the rollout.
C15_Witness ==
    /\ Len(hist[1]) = MaxHist + 1 /\ Len(hist[2]) = MaxHist + 1
    /\ hist[1][1] = None /\ hist[2][1] = Some(0)
    /\ traj[2][MaxHist + 1].raised = ""
    /\ traj[2][MaxHist + 1].out[1].agent_pos # <<0, 0>>
    /\ traj[2][1].out[1].walls # <<>>

\* C16 Pickup selection: a pickup taken while not carrying, with at least
\* one undelivered package on the agent's cell, sets carrying id to the id
\* of the first such package in stored order, which is the lowest id among
\* them; every package, the others on the cell included, stays where it is
\* and undelivered as before; the step returns event "pickup" and reward
\* penalty_step + reward_pickup.
C16_PickupSelection ==
    [][(StepCall(4) /\ S.carrying_id = None /\ PendingHere(S) # {}) =>
          LET s2 == state'[1][1]
              first == CHOOSE i \in PendingHere(S) : \A j \in PendingHere(S) : i <= j
          IN  /\ ret'[1].raised = ""
              /\ s2.carrying_id = Some(S.packages[first].id)
              /\ \A j \in PendingHere(S) : S.packages[first].id <= S.packages[j].id
              /\ ret'[1].out[1].carrying = s2.carrying_id
              /\ s2.packages = S.packages
              /\ s2.agent_pos = S.agent_pos
              /\ ret'[1].out[4].event = Some("pickup")
              /\ ret'[1].out[2] = cfg.penalty_step + cfg.reward_pickup]_vars

\* A pickup was made on a cell that holds two undelivered packages.
C16_Witness ==
    /\ HasEpisode /\ StepReturned
    /\ ret[1].arg = Some(4) /\ RetInfo.event = Some("pickup")
    /\ Cardinality(PendingHere(S)) = 2
    /\ S.carrying_id = Some(0)

\* C17 Reward composition: the reward of every step that returns is
\* penalty_step plus the one contribution of its event: penalty_bump for
\* "bump", reward_pickup for "pickup", reward_deliver for "deliver",
\* penalty_drop_wrong for "drop", and nothing for a successful move (no
\* event) or a failed pickup or drop.
C17_RewardComposition ==
    (HasEpisode /\ StepReturned) =>
        LET ev == RetInfo.event
            extra == IF ev = Some("bump") THEN cfg.penalty_bump
                     ELSE IF ev = Some("pickup") THEN cfg.reward_pickup
                     ELSE IF ev = Some("deliver") THEN cfg.reward_deliver
                     ELSE IF ev = Some("drop") THEN cfg.penalty_drop_wrong
                     ELSE 0
        IN  /\ ev \in {None, Some("bump"), Some("pickup"), Some("deliver"),
                       Some("drop"), Some("pickup_failed_already_carrying"),
                       Some("pickup_failed_no_package"),
                       Some("drop_failed_not_carrying")}
            /\ ev = None <=> ret[1].arg[1] \in 0..3 /\ ev # Some("bump")
            /\ RetReward = cfg.penalty_step + extra

\* A delivery was rewarded.
C17_Witness ==
    /\ HasEpisode /\ StepReturned
    /\ RetInfo.event = Some("deliver")
    /\ RetReward = cfg.penalty_step + cfg.reward_deliver

\* One of the three termination conditions holds of an episode state.
Terminated(s) ==
    \/ s.step_count >= cfg.max_steps
    \/ s.battery = 0
    \/ \A i \in 1..Len(s.packages) : s.packages[i].delivered

\* C18 Stepping after termination: a step returns done = true exactly when
\* it leaves the episode in a state where a termination condition holds;
\* from such a state, left by a step that returned done = true, every
\* further step with a valid action returns without error, adds 1 to the
\* step counter and returns done = true again.  (A rejected call in between
\* leaves the state as it is, so the state left by the latest returned step
\* is the state the next step is taken in.)
C18_StepAfterDone ==
    [][/\ (ret'[1].op = "step" /\ ret'[1].raised = "" /\ state'[1] # None) =>
             (ret'[1].out[3] <=> Terminated(state'[1][1]))
       /\ \A a \in 0..5 :
             (StepCall(a) /\ S.step_count >= 1 /\ Terminated(S)) =>
                 /\ ret'[1].raised = ""
                 /\ state'[1][1].step_count = S.step_count + 1
                 /\ ret'[1].out[1].step_count = S.step_count + 1
                 /\ ret'[1].out[3] = TRUE]_vars

\* A step was taken after the step that exhausted the step budget, with
\* battery left and a package undelivered, and returned done = true.
C18_Witness ==
    /\ HasEpisode /\ StepReturned /\ RetDone
    /\ S.step_count > cfg.max_steps
    /\ S.battery > 0
    /\ ~_all_delivered(S)
    /\ RetInfo.done_reason = "max_steps"

\* C19 Internal consistency: whenever an episode exists, carrying id is
\* None or the id of exactly one package, which is undelivered, and no step
\* on an episode raises the defensive RuntimeError: a step returns or, for
\* an invalid action, raises ValueError.
C19_InternalConsistency ==
    HasEpisode =>
        /\ S.carrying_id # None =>
              /\ Cardinality(WithId(S, S.carrying_id[1])) = 1
              /\ \A i \in WithId(S, S.carrying_id[1]) : ~S.packages[i].delivered
        /\ ret[1].op = "step" =>
              IF ret[1].arg[1] \in 0..5 THEN ret[1].raised = ""
              ELSE ret[1].raised = "ValueError"

\* The agent carries package 1 while package 0 is delivered.
C19_Witness ==
    /\ HasEpisode /\ StepReturned
    /\ S.carrying_id = Some(1)
    /\ Len(S.packages) = 2 /\ S.packages[1].delivered

\* C20 Bounded episode length: every step that returns adds exactly 1 to
\* the step counter; in every episode state battery =
\* max(battery_capacity - step counter, 0); and every step that brings the
\* step counter to min(max_steps, battery_capacity) or beyond returns
\* done = true.
C20_BoundedEpisode ==
    [][/\ state'[1] # None =>
             LET s2 == state'[1][1]
             IN  s2.battery =
                    (IF cfg.battery_capacity - s2.step_count >= 0
                     THEN cfg.battery_capacity - s2.step_count ELSE 0)
       /\ \A a \in ActionInputs : (StepCall(a) /\ ret'[1].raised = "") =>
             LET s2 == state'[1][1]
             IN  /\ s2.step_count = S.step_count + 1
                 /\ ret'[1].out[1].step_count = S.step_count + 1
                 /\ s2.step_count >= Min2(cfg.max_steps, cfg.battery_capacity) =>
                       ret'[1].out[3] = TRUE]_vars

\* A bump brought the step counter to the battery capacity, below max_steps.
C20_Witness ==
    /\ HasEpisode /\ StepReturned /\ RetDone
    /\ S.step_count = cfg.battery_capacity
    /\ cfg.battery_capacity < cfg.max_steps
    /\ RetInfo.event = Some("bump")
    /\ ~_all_delivered(S)

====
